---- MODULE Spec2Model ----
(***************************************************************************)
(* A model of utid (src/src/lib.rs): identifiers packed out of bit-field   *)
(* segments into one i128 and unpacked again.                              *)
(*                                                                         *)
(* An i128 is modelled by the set of the positions of its 1 bits (two's    *)
(* complement, position 0 least significant, position 127 the sign), so    *)
(* that the shifts, masks and ORs of the code are computed bit for bit on  *)
(* the full 128-bit width.  An OffsetDateTime is modelled by its            *)
(* unix_timestamp_nanos, an i128.                                          *)
(*                                                                         *)
(* A Rust operation that can panic returns an outcome record               *)
(* [tag, val] with tag "Ok" or "Panic"; an operation of type Result<_, _>  *)
(* can also return tag "Err" (Error::OverflowError, the only error).       *)
(* Arithmetic overflow panics when the build has overflow checks (the      *)
(* debug and test profiles) and wraps otherwise (the release profile):     *)
(* the variable `checked` holds which build is running.                    *)
(***************************************************************************)
EXTENDS Integers, Sequences, FiniteSets

\* ------------------------------------------------------------------ i128

\* The width of i128, the container: `self.size == 128u8`.
Bits == 128

Pos == 0 .. (Bits - 1)

SignBit == Bits - 1

Ones(n) == {i \in Pos : i < n}

I128Max == Ones(SignBit)

I128Min == {SignBit}

IsNeg(x) == SignBit \in x

MinOf(S) == CHOOSE m \in S : \A k \in S : m <= k

MaxOf(S) == CHOOSE m \in S : \A k \in S : k <= m

\* x < y as signed integers.
SLt(x, y) ==
    IF x = y THEN FALSE
    ELSE IF IsNeg(x) # IsNeg(y) THEN IsNeg(x)
    ELSE MaxOf((x \ y) \cup (y \ x)) \in y

SLe(x, y) == x = y \/ SLt(x, y)

\* x << n, x >> n on the 128 bits, for a shift amount n < 128.
ShlBits(x, n) == {i + n : i \in x} \cap Pos

ShrLogical(x, n) == {i - n : i \in {j \in x : j >= n}}

ShrArith(x, n) ==
    ShrLogical(x, n) \cup (IF IsNeg(x) THEN {i \in Pos : i >= Bits - n} ELSE {})

\* x - 1, wrapping.
WrappingSubOne(x) ==
    IF x = {} THEN Pos
    ELSE LET k == MinOf(x) IN (x \ {k}) \cup Ones(k)

\* Arithmetic is carried out on the 16 bytes of the value, least significant
\* first, so that every intermediate number stays small.
ByteOf(x, k) ==
    LET b(j) == IF (8 * k + j) \in x THEN 2 ^ j ELSE 0
    IN  b(0) + b(1) + b(2) + b(3) + b(4) + b(5) + b(6) + b(7)

RECURSIVE BytesFrom(_, _)
BytesFrom(x, k) == IF k = 16 THEN <<>> ELSE <<ByteOf(x, k)>> \o BytesFrom(x, k + 1)

ToBytes(x) == BytesFrom(x, 0)

FromBytes(l) == {i \in Pos : (l[(i \div 8) + 1] \div (2 ^ (i % 8))) % 2 = 1}

\* The bytes of a + b from byte k on, given the carry into it.
RECURSIVE AddFrom(_, _, _, _)
AddFrom(a, b, k, carry) ==
    IF k > 16 THEN <<>>
    ELSE LET s == a[k] + b[k] + carry
         IN  <<s % 256>> \o AddFrom(a, b, k + 1, s \div 256)

\* x + y on the 128 bits, wrapping: ripple carry.
WrappingAdd(x, y) == FromBytes(AddFrom(ToBytes(x), ToBytes(y), 1, 0))

\* -x, wrapping.
WrappingNeg(x) == WrappingAdd(Pos \ x, {0})

\* x - y, wrapping.
WrappingSub(x, y) == WrappingAdd(x, WrappingNeg(y))

\* Signed addition, of x and y to the wrapped sum, overflows when both
\* operands have one sign and the sum the other.
AddOverflows(x, y, sum) == IsNeg(x) = IsNeg(y) /\ IsNeg(sum) # IsNeg(x)

\* The i128 of a natural number n < 2^31.
FromNat(n) == {i \in 0 .. 30 : (n \div (2 ^ i)) % 2 = 1}

\* The bytes of a * d from byte k on, given the carry into it, followed by
\* the carry out of the last byte; 0 < d <= 10^6.
RECURSIVE MulFrom(_, _, _, _)
MulFrom(a, d, k, carry) ==
    IF k > 16 THEN <<carry>>
    ELSE LET s == a[k] * d + carry
         IN  <<s % 256>> \o MulFrom(a, d, k + 1, s \div 256)

\* m * d on the 128 bits, wrapping, for a magnitude m (no sign): schoolbook
\* multiplication from the least significant byte.
MulMagnitude(m, d) == FromBytes(MulFrom(ToBytes(m), d, 1, 0))

\* The bytes of a / d from byte k down, most significant first, given the
\* remainder left by the bytes above it; 0 < d <= 10^6.
RECURSIVE DivFrom(_, _, _, _)
DivFrom(a, d, k, rem) ==
    IF k < 1 THEN <<>>
    ELSE LET cur == 256 * rem + a[k]
         IN  <<cur \div d>> \o DivFrom(a, d, k - 1, cur % d)

\* m / d for a magnitude m: long division from the most significant byte.
DivMagnitude(m, d) ==
    LET q == DivFrom(ToBytes(m), d, 16, 0)
    IN  FromBytes([k \in 1 .. 16 |-> q[17 - k]])

\* |x|, wrapping (the magnitude of the least i128 is itself).
Magnitude(x) == IF IsNeg(x) THEN WrappingNeg(x) ELSE x

\* m / d for a magnitude m and d a power of 1000 (as every divisor of the
\* code is): dividing by 1000 * e is dividing by 1000 and then by e.
RECURSIVE DivPow1000(_, _)
DivPow1000(m, d) ==
    IF d = 1 THEN m
    ELSE DivPow1000(DivMagnitude(m, 1000), d \div 1000)

\* x / d as i128: Rust's division truncates toward zero.
DivTrunc(x, d) ==
    LET q == DivPow1000(Magnitude(x), d)
    IN  IF IsNeg(x) THEN WrappingNeg(q) ELSE q

\* The bytes of x * d for x >= 0 and d a power of 1000, wrapping, and whether
\* the product overflows i128: [val, overflows].
RECURSIVE MulPow1000(_, _)
MulPow1000(p, d) ==
    IF d = 1 THEN p
    ELSE LET l == MulFrom(ToBytes(p.val), 1000, 1, 0)
             val == FromBytes(l)
         IN  MulPow1000([val |-> val,
                         overflows |-> p.overflows \/ l[17] # 0 \/ IsNeg(val)],
                        d \div 1000)

\* ------------------------------------------------------------- the state

\* The library keeps no state between calls: beside the build, the
\* composition and the clock, the state is the latest call and what it
\* returned, the generate() whose identifier a decompose() was given, and the
\* result of a round trip made before the clock last advanced.
VARIABLES
    checked,     \* TRUE: the build has overflow checks (debug, test)
    spec,        \* the composition: its segments, most significant first
    now,         \* the clock: what OffsetDateTime::now_utc() returns
    ticks,       \* how many times the clock has advanced
    generated,   \* what generate() returned
    encoded,     \* the encode() calls that generate() made, in order
    arg,         \* the integer decompose() was given, and where it is from
    decomposed,  \* what decompose() returned
    previous,    \* what a round trip returned before the clock last advanced
    bound        \* the upper_bound() call and what it returned

vars == <<checked, spec, now, ticks, generated, encoded, arg, decomposed,
          previous, bound>>

\* ------------------------------------------------- outcomes of operations

Ok(v) == [tag |-> "Ok", val |-> v]

\* Err(Error::OverflowError), the only error there is.
OverflowError == [tag |-> "Err", error |-> "OverflowError"]

Panic == [tag |-> "Panic"]

\* Nothing yet: no call was made.
None == [tag |-> "None"]

\* F on the value of an outcome that is Ok; any other outcome as it is.
Bind(o, F(_)) == IF o.tag = "Ok" THEN F(o.val) ELSE o

\* --------------------------------------- Rust's integer operators, by build

\* a + b on u8: panics on overflow with overflow checks, wraps without.
AddU8(a, b) ==
    IF a + b <= 255 THEN Ok(a + b)
    ELSE IF checked THEN Panic ELSE Ok((a + b) % 256)

\* The amount an i128 or u128 is shifted by for `<< n` or `>> n`, n a u8:
\* a shift by the width or more panics with overflow checks, and is taken
\* modulo the width without.
ShiftAmount(n) ==
    IF n < Bits THEN Ok(n)
    ELSE IF checked THEN Panic ELSE Ok(n % Bits)

\* x << n on i128.
Shl(x, n) == Bind(ShiftAmount(n), LAMBDA k : Ok(ShlBits(x, k)))

\* x >> n on i128 (arithmetic) and on u128 (logical).
Shr(x, n) == Bind(ShiftAmount(n), LAMBDA k : Ok(ShrArith(x, k)))

ShrU128(x, n) == Bind(ShiftAmount(n), LAMBDA k : Ok(ShrLogical(x, k)))

\* x - 1 on i128.
SubOne(x) ==
    IF x # I128Min THEN Ok(WrappingSubOne(x))
    ELSE IF checked THEN Panic ELSE Ok(I128Max)

\* x + y on i128.
Add(x, y) ==
    LET sum == WrappingAdd(x, y)
    IN  IF AddOverflows(x, y, sum) /\ checked THEN Panic ELSE Ok(sum)

\* x * d on i128, x >= 0.
Mul(x, d) ==
    LET p == MulPow1000([val |-> x, overflows |-> FALSE], d)
    IN  IF p.overflows /\ checked THEN Panic ELSE Ok(p.val)

\* (1 << n) - 1, the mask of the n low bits.
MaskOf(n) == Bind(Shl({0}, n), LAMBDA one : SubOne(one))

\* ------------------------------------------------------------------ time

\* A Date is modelled by its number of days since 1970-01-01, an instant by
\* its nanoseconds since 1970-01-01T00:00:00 UTC.
SecondsPerDay == 86400

NanosPerSecond == 1000000000

\* date.midnight().assume_utc()
Midnight(date) ==
    LET seconds == MulMagnitude(FromNat(IF date < 0 THEN -date ELSE date), SecondsPerDay)
        m == MulPow1000([val |-> seconds, overflows |-> FALSE], NanosPerSecond).val
    IN  IF date < 0 THEN WrappingNeg(m) ELSE m

\* The dates of the time crate: -9999-01-01 to 9999-12-31.
MinDate == -4371587

MaxDate == 2932896

MinInstant == Midnight(MinDate)

EndInstant == Midnight(MaxDate + 1)

\* An instant the time crate can hold.
InDateRange(t) == SLe(MinInstant, t) /\ SLt(t, EndInstant)

\* OffsetDateTime::from_unix_timestamp_nanos(t).unwrap()
FromUnixTimestampNanos(t) == IF InDateRange(t) THEN Ok(t) ELSE Panic

\* x fits an i64: i64::try_from(x).unwrap() does not panic.
FitsI64(x) == \/ {i \in x : i >= 63} = {}
              \/ {i \in Pos : i >= 63} \subseteq x

Units == {"Seconds", "Milliseconds", "Microseconds", "Nanoseconds"}

\* A from_nano that divides the negated number of nanoseconds: with it a
\* later instant has the smaller number of units.
from_nano_negated(unit, nanos) ==
    DivTrunc(WrappingNeg(nanos), CASE unit = "Seconds" -> 1000000000
                                   [] unit = "Milliseconds" -> 1000000
                                   [] unit = "Microseconds" -> 1000
                                   [] unit = "Nanoseconds" -> 1)

\* TimestampUnit::from_nano (nanos / 1 is nanos)
from_nano(unit, nanos) ==
    DivTrunc(nanos, CASE unit = "Seconds" -> 1000000000
                      [] unit = "Milliseconds" -> 1000000
                      [] unit = "Microseconds" -> 1000
                      [] unit = "Nanoseconds" -> 1)

\* TimestampUnit::to_nano (value * 1 is value)
to_nano(unit, value) ==
    Mul(value, CASE unit = "Seconds" -> 1000000000
                 [] unit = "Milliseconds" -> 1000000
                 [] unit = "Microseconds" -> 1000
                 [] unit = "Nanoseconds" -> 1)

\* -------------------------------------------------------------- segments

\* TimestampSegment::new_with_utc_midnight
TimestampSegment(size, unit, since) ==
    [kind |-> "Timestamp", size |-> size, unit |-> unit, since |-> Midnight(since)]

\* RandomSegment::new
RandomSegment(size) == [kind |-> "Random", size |-> size]

\* ConstantSegment::new
ConstantSegment(size, value) == [kind |-> "Constant", size |-> size, value |-> value]

\* SpecSegment is a public trait and a composition boxes any implementation
\* of it.  No encode of the crate returns an error; this is a caller's
\* segment whose encode does, and that is a ConstantSegment otherwise.
FailingSegment(size) == [kind |-> "Failing", size |-> size]

\* What the random number generator can return for gen_range(0..=hi), where
\* hi is 2^k - 1: every set of bits of hi is a number of the range, and r
\* picks one.
Draws == {"zero", "one", "max"}

GenRange(hi, r) ==
    CASE r = "zero" -> {}
      [] r = "one" -> hi \cap {0}
      [] r = "max" -> hi

\* RandomSegment::upper_bound, ConstantSegment::upper_bound
UpperBoundOfSize(size) == IF size = 128 THEN Ok(I128Max) ELSE MaskOf(size)

\* TimestampSegment::upper_bound: the offset in nanoseconds is split into the
\* i64 seconds and the i32 nanoseconds of a Duration (the seconds must fit),
\* which is added to the epoch (the sum must be a date of the time crate).
TimestampUpperBound(seg) ==
    LET offset == UpperBoundOfSize(seg.size)
        nanos == Bind(offset, LAMBDA o : to_nano(seg.unit, o))
        until == Bind(nanos, LAMBDA n : Ok(WrappingAdd(seg.since, n)))
    IN  IF until.tag # "Ok" THEN Panic
        ELSE IF /\ FitsI64(DivTrunc(nanos.val, NanosPerSecond))
                /\ ~AddOverflows(seg.since, nanos.val, until.val)
                /\ InDateRange(until.val)
             THEN until
             ELSE Panic

\* SpecSegment::upper_bound
upper_bound(seg) ==
    IF seg.kind = "Timestamp" THEN TimestampUpperBound(seg)
    ELSE UpperBoundOfSize(seg.size)

\* SpecSegment::encode; r is what the random number generator returns and
\* clock what OffsetDateTime::now_utc() does.
encode(seg, r, clock) ==
    CASE seg.kind = "Timestamp" ->
            Ok(from_nano(seg.unit, WrappingSub(clock, seg.since)))
      [] seg.kind = "Random" ->
            Bind(UpperBoundOfSize(seg.size), LAMBDA hi : Ok(GenRange(hi, r)))
      [] seg.kind = "Constant" -> Ok(seg.value)
      [] seg.kind = "Failing" -> OverflowError

\* SpecSegment::decode
decode(seg, value) ==
    IF seg.kind = "Timestamp"
    THEN LET origin == from_nano(seg.unit, seg.since)
         IN  Bind(Add(origin, value), LAMBDA t : FromUnixTimestampNanos(t))
    ELSE Ok(value)

\* -------------------------------------------------------------- generate

\* The state of a generate() under way: tag says whether it is still running
\* ("Ok") or has returned an error or panicked, result is its accumulator and
\* calls the encode() calls made so far.
Start == [tag |-> "Ok", result |-> {}, calls |-> <<>>]

\* An OrEncode without the `?`: it goes on after a failed encode, calls the
\* encode of the next segment too, and returns the error at the end.
OrEncodeWithoutTry(st, i, ret, shift) ==
    IF st.tag = "Panic" THEN st
    ELSE IF shift.tag # "Ok" THEN [st EXCEPT !.tag = "Panic"]
    ELSE LET calls == Append(st.calls, [segment |-> i, ret |-> ret[i]])
             shifted == Bind(ret[i], LAMBDA v : Shl(v, shift.val))
         IN  IF st.tag = "Ok" /\ shifted.tag = "Ok"
             THEN [tag |-> "Ok", result |-> st.result \cup shifted.val, calls |-> calls]
             ELSE [tag |-> IF st.tag = "Err" THEN "Err" ELSE shifted.tag,
                   result |-> st.result, calls |-> calls]

\* `result |= self.segments.<i>.encode()? << shift`, after the statements that
\* led to st and computed shift (an outcome: `shift += size` can panic);
\* ret[i] is what self.segments.<i>.encode() returns when it is called.  The
\* segment is encoded, then shifted; `?` returns the error of a failed encode.
OrEncode(st, i, ret, shift) ==
    IF st.tag # "Ok" THEN st
    ELSE IF shift.tag # "Ok" THEN [st EXCEPT !.tag = "Panic"]
    ELSE LET calls == Append(st.calls, [segment |-> i, ret |-> ret[i]])
             shifted == Bind(ret[i], LAMBDA v : Shl(v, shift.val))
         IN  IF shifted.tag = "Ok"
             THEN [tag |-> "Ok", result |-> st.result \cup shifted.val, calls |-> calls]
             ELSE [tag |-> shifted.tag, result |-> st.result, calls |-> calls]

\* `let mut result = self.segments.<i>.encode()?`
LetEncode(i, ret) == OrEncode(Start, i, ret, Ok(0))

\* Spec::generate
Spec1_generate(segments, ret) == LetEncode(1, ret)

\* Spec2::generate
Spec2_generate(segments, ret) ==
    LET result1 == LetEncode(2, ret)
    IN  OrEncode(result1, 1, ret, Ok(segments[2].size))

\* Spec3::generate
Spec3_generate(segments, ret) ==
    LET result1 == LetEncode(3, ret)
        shift1 == Ok(segments[3].size)
        result2 == OrEncode(result1, 2, ret, shift1)
        shift2 == AddU8(shift1.val, segments[2].size)
    IN  OrEncode(result2, 1, ret, shift2)

\* Spec4::generate
Spec4_generate(segments, ret) ==
    LET result1 == LetEncode(4, ret)
        shift1 == Ok(segments[4].size)
        result2 == OrEncode(result1, 3, ret, shift1)
        shift2 == AddU8(shift1.val, segments[3].size)
        result3 == OrEncode(result2, 2, ret, shift2)
        shift3 == Bind(shift2, LAMBDA s : AddU8(s, segments[2].size))
    IN  OrEncode(result3, 1, ret, shift3)

\* generate() of the composition of these segments, when the random number
\* generator returns rng[i] to segment i and the clock reads clock.
generate(segments, rng, clock) ==
    LET ret == [i \in DOMAIN segments |-> encode(segments[i], rng[i], clock)]
    IN  CASE Len(segments) = 1 -> Spec1_generate(segments, ret)
          [] Len(segments) = 2 -> Spec2_generate(segments, ret)
          [] Len(segments) = 3 -> Spec3_generate(segments, ret)
          [] Len(segments) = 4 -> Spec4_generate(segments, ret)

\* ------------------------------------------------------------- decompose

\* `((1i128 << size) - 1) & generated`
Lowest(size, value) == Bind(MaskOf(size), LAMBDA m : Ok(m \cap value))

\* `(((1i128 << (size + shift)) - 1) & generated) >> shift`
Middle(size, shift, value) ==
    LET width == Bind(shift, LAMBDA s : AddU8(size, s))
        mask == Bind(width, LAMBDA w : MaskOf(w))
    IN  Bind(mask, LAMBDA m : Shr(m \cap value, shift.val))

\* `generated >> shift`
Highest(shift, value) == Bind(shift, LAMBDA s : Shr(value, s))

\* `self.segments.<i>.decode(..)` of each field, and Ok of the tuple of the
\* decoded values; a panic if computing a field or decoding it panics.
Decoded(segments, fields) ==
    LET decoded == [i \in DOMAIN segments |->
                       Bind(fields[i], LAMBDA v : decode(segments[i], v))]
    IN  IF \A i \in DOMAIN segments : decoded[i].tag = "Ok"
        THEN Ok([i \in DOMAIN segments |-> decoded[i].val])
        ELSE Panic

\* Spec::decompose
Spec1_decompose(segments, value) == <<Ok(value)>>

\* Spec2::decompose
Spec2_decompose(segments, value) ==
    LET second == Lowest(segments[2].size, value)
        first == ShrU128(value, segments[2].size)
    IN  <<first, second>>

\* Spec3::decompose
Spec3_decompose(segments, value) ==
    LET third == Lowest(segments[3].size, value)
        shift1 == Ok(segments[3].size)
        second == Middle(segments[2].size, shift1, value)
        shift2 == AddU8(shift1.val, segments[2].size)
        first == Highest(shift2, value)
    IN  <<first, second, third>>

\* Spec4::decompose
Spec4_decompose(segments, value) ==
    LET fourth == Lowest(segments[4].size, value)
        shift1 == Ok(segments[4].size)
        third == Middle(segments[3].size, shift1, value)
        shift2 == AddU8(shift1.val, segments[3].size)
        second == Middle(segments[2].size, shift2, value)
        shift3 == Bind(shift2, LAMBDA s : AddU8(s, segments[2].size))
        first == Highest(shift3, value)
    IN  <<first, second, third, fourth>>

\* decompose(value) of the composition of these segments: the fields are cut
\* out of value as the code of its arity does, and each is decoded.
decompose(segments, value) ==
    Decoded(segments,
            CASE Len(segments) = 1 -> Spec1_decompose(segments, value)
              [] Len(segments) = 2 -> Spec2_decompose(segments, value)
              [] Len(segments) = 3 -> Spec3_decompose(segments, value)
              [] Len(segments) = 4 -> Spec4_decompose(segments, value))

\* ------------------------------------------------- what the caller builds

\* The widths of the compositions: those of the tests (40 + 88, 16 + 32 + 80
\* and 8 + 16 + 32 + 72 fill the 128 bits, as does one segment of 128), some
\* that leave high bits unused, some whose less significant widths sum to
\* 127, and one that sums to 200.
Layouts ==
    { <<8>>, <<127>>, <<128>>,
      <<8, 8>>, <<40, 88>>, <<1, 127>>, <<100, 100>>,
      <<16, 32, 80>>, <<1, 63, 64>>,
      <<8, 16, 32, 72>> }

\* The values of a constant segment: the largest of its width, 2^size - 1
\* (at 128 bits the largest i128), and the next one, which does not fit.
ConstantValues(size) ==
    {Ones(size) \cap I128Max} \cup (IF size < SignBit THEN {{size}} ELSE {})

SegmentsOf(size) ==
    {ConstantSegment(size, v) : v \in ConstantValues(size)}
        \cup {RandomSegment(size), FailingSegment(size)}

RECURSIVE Product(_)
Product(layout) ==
    IF layout = <<>> THEN {<<>>}
    ELSE {<<seg>> \o rest : seg \in SegmentsOf(Head(layout)),
                            rest \in Product(Tail(layout))}

\* The compositions of constant, random and failing segments.
Compositions == UNION {Product(layout) : layout \in Layouts}

\* The epochs, as days since 1970-01-01: that day, and 2023-01-01.
Epochs == {0, 19358}

TimestampSizes == {52, 128}

\* The compositions of one timestamp segment.
TimedCompositions ==
    {<<TimestampSegment(size, unit, since)>> :
        size \in TimestampSizes, unit \in Units, since \in Epochs}

\* The clock starts 1500 ns before 2023-01-01T00:00:00 UTC and advances by
\* one of these numbers of nanoseconds, at most MaxTicks times.
ClockStart == WrappingSub(Midnight(19358), FromNat(1500))

Deltas == {FromNat(600), FromNat(2000000900)}

MaxTicks == 2

\* The integers a caller passes to decompose that no generate returned:
\* 1, -1 (every bit set) and the largest i128.
Inputs == {{0}, Pos, I128Max}

\* ---------------------------------------------------------------- actions

Init ==
    /\ checked \in BOOLEAN
    /\ spec = <<>>
    /\ now = ClockStart
    /\ ticks = 0
    /\ generated = None
    /\ encoded = <<>>
    /\ arg = None
    /\ decomposed = None
    /\ previous = None
    /\ bound = None

\* `Spec { segment: .. }`, `Spec2 { segments: (.., ..) }`, ...: the fields are
\* public and the composition is a struct literal, which checks nothing.
Build(compositions) ==
    /\ spec = <<>>
    /\ spec' \in compositions
    /\ UNCHANGED <<checked, now, ticks, generated, encoded, arg, decomposed,
                   previous, bound>>

Construct == Build(Compositions)

ConstructTimed == Build(TimedCompositions)

\* What generate() returns when it ends in state st.
Returned(st) ==
    CASE st.tag = "Ok" -> Ok(st.result)
      [] st.tag = "Err" -> OverflowError
      [] st.tag = "Panic" -> Panic

\* spec.generate()
Generate ==
    /\ spec # <<>>
    /\ \E rng \in [DOMAIN spec -> Draws] :
          /\ \A i \in DOMAIN spec : spec[i].kind # "Random" => rng[i] = "zero"
          /\ LET st == generate(spec, rng, now)
             IN  /\ generated' = Returned(st)
                 /\ encoded' = st.calls
    /\ arg' = None
    /\ decomposed' = None
    /\ bound' = None
    /\ UNCHANGED <<checked, spec, now, ticks, previous>>

\* spec.decompose(spec.generate().unwrap())
DecomposeGenerated ==
    /\ spec # <<>>
    /\ generated.tag = "Ok"
    /\ arg' = [tag |-> "generated", val |-> generated.val]
    /\ decomposed' = decompose(spec, generated.val)
    /\ bound' = None
    /\ UNCHANGED <<checked, spec, now, ticks, generated, encoded, previous>>

\* spec.decompose(value) for an integer that no generate() returned.
DecomposeInput ==
    /\ spec # <<>>
    /\ \E value \in Inputs :
          /\ arg' = [tag |-> "input", val |-> value]
          /\ decomposed' = decompose(spec, value)
    /\ generated' = None
    /\ encoded' = <<>>
    /\ bound' = None
    /\ UNCHANGED <<checked, spec, now, ticks, previous>>

\* spec.segments.<i>.upper_bound()
UpperBound ==
    /\ spec # <<>>
    /\ \E i \in DOMAIN spec :
          bound' = [tag |-> "Called", segment |-> i, ret |-> upper_bound(spec[i])]
    /\ generated' = None
    /\ encoded' = <<>>
    /\ arg' = None
    /\ decomposed' = None
    /\ UNCHANGED <<checked, spec, now, ticks, previous>>

\* Time passes: the clock advances, and a round trip that is complete by
\* then is remembered as the earlier one.
Tick ==
    /\ ticks < MaxTicks
    /\ \E d \in Deltas : now' = WrappingAdd(now, d)
    /\ ticks' = ticks + 1
    /\ previous' = IF arg.tag = "generated" THEN decomposed ELSE previous
    /\ UNCHANGED <<checked, spec, generated, encoded, arg, decomposed, bound>>

Next ==
    \/ Construct
    \/ Generate
    \/ DecomposeGenerated
    \/ DecomposeInput
    \/ UpperBound

Spec == Init /\ [][Next]_vars

TimedNext ==
    \/ ConstructTimed
    \/ Tick
    \/ Generate
    \/ DecomposeGenerated
    \/ DecomposeInput
    \/ UpperBound

TimedSpec == Init /\ [][TimedNext]_vars

\* ------------------------------------------------------------ properties

\* A composition of Constant and Random segments has been built.
Packing ==
    /\ spec # <<>>
    /\ \A i \in DOMAIN spec : spec[i].kind \in {"Constant", "Random"}

RECURSIVE SumOfSizes(_)
SumOfSizes(segments) ==
    IF segments = <<>> THEN 0
    ELSE Head(segments).size + SumOfSizes(Tail(segments))

\* The widths are each in [1, 128] and sum to at most 128.
ValidLayout ==
    /\ \A i \in DOMAIN spec : spec[i].size \in 1..Bits
    /\ SumOfSizes(spec) <= Bits

\* 0 <= v <= 2^size - 1
InWidth(v, size) == ~IsNeg(v) /\ v \subseteq Ones(size)

\* What the encode() of segment i returned to the generate() that encoded
\* records, when it was called and returned a value.
EncodedValue(i) ==
    (CHOOSE call \in {encoded[k] : k \in DOMAIN encoded} : call.segment = i).ret.val

\* C1 (round trip): for a composition of one to four Constant or Random
\* segments whose widths are each in [1, 128] and sum to at most 128, and
\* whose encoded values each lie in [0, 2^width - 1], decompose(generate())
\* returns exactly the values that were encoded, most significant first.
C1_RoundTrip ==
    ( /\ Packing
      /\ ValidLayout
      /\ arg.tag = "generated"
      /\ \A k \in DOMAIN encoded :
            InWidth(encoded[k].ret.val, spec[encoded[k].segment].size) )
    => decomposed = Ok([i \in DOMAIN spec |-> EncodedValue(i)])

\* The raw value of segment i exceeds 2^width - 1: a constant configured
\* with too large a value, or a value that encode() returned to generate().
RawValueTooLarge(i) ==
    \/ /\ spec[i].kind = "Constant"
       /\ ~InWidth(spec[i].value, spec[i].size)
    \/ \E k \in DOMAIN encoded :
          /\ encoded[k].segment = i
          /\ encoded[k].ret.tag = "Ok"
          /\ ~InWidth(encoded[k].ret.val, spec[i].size)

\* C2 (overflow detection): whenever the raw value of a segment exceeds
\* 2^width - 1 for its declared width, generate() fails with OverflowError
\* and returns no identifier.
C2_OverflowDetection ==
    ( /\ spec # <<>>
      /\ generated.tag # "None"
      /\ \E i \in DOMAIN spec : RawValueTooLarge(i) )
    => generated = OverflowError

\* C3 (width conservation): the integer a successful generate() returns is
\* non-negative when the widths sum to less than 128, and is smaller than
\* 2^(sum of the widths): no bit above the declared layout is set.
C3_WidthConservation ==
    (spec # <<>> /\ generated.tag = "Ok")
    => /\ SumOfSizes(spec) < Bits => ~IsNeg(generated.val)
       /\ generated.val \subseteq Ones(SumOfSizes(spec))

\* C4 (construction): no composition whose widths sum to more than 128 is
\* built and then used for generate or decompose.
C4_ConstructionRejected ==
    (spec # <<>> /\ (generated.tag # "None" \/ decomposed.tag # "None"))
    => SumOfSizes(spec) <= Bits

\* C5 (per-segment bound): for a composition of Random and Constant segments
\* and any integer passed to decompose, each decoded value v of a segment,
\* that of the most significant segment and that of the single segment of
\* Spec included, satisfies 0 <= v <= 2^width - 1.
C5_PerSegmentBound ==
    (Packing /\ decomposed.tag = "Ok")
    => \A i \in DOMAIN spec : InWidth(decomposed.val[i], spec[i].size)

\* The instant since + r units, for 0 <= r < 2^64 (r units are then less
\* than 2^94 ns): Ok of it when it is a date of the time crate.
InstantAfter(seg, r) ==
    LET elapsed == MulPow1000([val |-> r, overflows |-> FALSE],
                              CASE seg.unit = "Seconds" -> 1000000000
                                [] seg.unit = "Milliseconds" -> 1000000
                                [] seg.unit = "Microseconds" -> 1000
                                [] seg.unit = "Nanoseconds" -> 1).val
    IN  FromUnixTimestampNanos(WrappingAdd(seg.since, elapsed))

\* C6 (timestamp decode): for every unit, epoch and raw value r, decode(r)
\* of a Timestamp segment returns the instant epoch + r units (here for
\* 0 <= r < 2^64 and an instant that is a date of the time crate).
C6_TimestampDecode ==
    ( /\ spec # <<>>
      /\ spec[1].kind = "Timestamp"
      /\ arg.tag # "None"
      /\ InWidth(arg.val, 64)
      /\ InstantAfter(spec[1], arg.val).tag = "Ok" )
    => decomposed = Ok(<<InstantAfter(spec[1], arg.val).val>>)

\* C7 (upper bound): for every width in [1, 128], upper_bound() of a Random
\* or Constant segment returns 2^width - 1, every one of the width low bits
\* set and no other; at width 128 that is 2^128 - 1, every bit set, and not
\* 2^127 - 1.
C7_UpperBound ==
    ( /\ spec # <<>>
      /\ bound.tag = "Called"
      /\ spec[bound.segment].kind \in {"Constant", "Random"}
      /\ spec[bound.segment].size \in 1..Bits )
    => bound.ret = Ok(Ones(spec[bound.segment].size))

\* C8 (timestamp monotonicity): for a composition of one Timestamp segment,
\* the instant that decomposing a generate() returns is not before the
\* instant that an earlier round trip returned, made before the clock
\* advanced.
C8_TimestampMonotonicity ==
    ( /\ spec # <<>>
      /\ spec[1].kind = "Timestamp"
      /\ previous.tag = "Ok"
      /\ arg.tag = "generated"
      /\ decomposed.tag = "Ok" )
    => SLe(previous.val[1], decomposed.val[1])

\* Two round trips, the clock advancing between their generate() calls, that
\* returned different instants.
C8_LaterRoundTrip ==
    /\ spec # <<>>
    /\ spec[1].kind = "Timestamp"
    /\ ticks > 0
    /\ previous.tag = "Ok"
    /\ arg.tag = "generated"
    /\ decomposed.tag = "Ok"
    /\ previous.val[1] # decomposed.val[1]

\* C9 (fail-fast generation): generate() of Spec2, Spec3 and Spec4 calls the
\* encode of the segments from the last to the first; the encode that
\* returns an error is the last one called, generate() returns that error
\* and no identifier, and generate() returns Ok only when every segment was
\* encoded.
C9_FailFast ==
    (Len(spec) >= 2 /\ generated.tag # "None")
    => /\ Len(encoded) <= Len(spec)
       /\ \A k \in DOMAIN encoded : encoded[k].segment = Len(spec) + 1 - k
       /\ \A k \in DOMAIN encoded :
             encoded[k].ret.tag = "Err"
                => k = Len(encoded) /\ generated = encoded[k].ret
       /\ generated.tag = "Ok"
             => /\ Len(encoded) = Len(spec)
                /\ \A k \in DOMAIN encoded : encoded[k].ret.tag = "Ok"

\* A generate() of three or four segments that failed at the second encode:
\* the last segment was encoded, the one before it returned the error, and
\* no more significant segment was encoded.
C9_FailedSecondEncode ==
    /\ Len(spec) >= 3
    /\ generated = OverflowError
    /\ Len(encoded) = 2
    /\ encoded[1].ret.tag = "Ok"
    /\ encoded[2].ret = OverflowError

\* C10 (decompose is total): for every composition whose widths are each in
\* [1, 128] and sum to at most 128 and every integer, decompose computes its
\* masks and shifts without overflow and returns Ok with one decoded value
\* for each segment.
C10_DecomposeTotal ==
    (spec # <<>> /\ ValidLayout /\ arg.tag # "None")
    => /\ decomposed.tag = "Ok"
       /\ DOMAIN decomposed.val = DOMAIN spec
====
